---- MODULE Spec2Model ----
(***************************************************************************)
(* LinkProp / LinkProp-Multi (src/run_link_prop.py): the sparse-matrix     *)
(* primitives, the holdout sampler, MAP@k and the LinkPropMulti predictor, *)
(* as state machines over small matrices.                                  *)
(*                                                                         *)
(* A SparseTensor is a record [size |-> <<rows, cols>>, ent |-> f] where   *)
(* DOMAIN f is the set of explicitly stored coordinates <<r, c>> (0-based, *)
(* as in the source) and f gives the stored value; an explicitly stored 0  *)
(* is a stored coordinate, as in torch_sparse.                             *)
(***************************************************************************)
EXTENDS Integers, Sequences, FiniteSets, TLC

\* ---------------------------------------------------------------- bounds
NumRows == 2
NumCols == 2
MaxEdges == 3
MaxVal == 2
RandLevels == 2
Boost == 16
ScoreRows == 5
ManyRounds == 3

VARIABLES M, lp, split, call, inp

vars == <<M, lp, split, call, inp>>

\* ------------------------------------------------------- general helpers
Max2(a, b) == IF a >= b THEN a ELSE b
Min2(a, b) == IF a <= b THEN a ELSE b

RECURSIVE SumSeq(_)
SumSeq(s) == IF s = <<>> THEN 0 ELSE Head(s) + SumSeq(Tail(s))

RECURSIVE MaxSeq(_)
MaxSeq(s) == IF Len(s) = 1 THEN s[1] ELSE Max2(Head(s), MaxSeq(Tail(s)))

RECURSIVE Pow(_, _)
Pow(b, e) == IF e = 0 THEN 1 ELSE b * Pow(b, e - 1)

\* ceil(a / b) for a >= 0, b > 0 (math.ceil of a true division)
CeilDiv(a, b) == (a + b - 1) \div b

\* -------------------------------------------------- SparseTensor values
Rows(x) == 0 .. (x.size[1] - 1)
Cols(x) == 0 .. (x.size[2] - 1)
Stored(x) == DOMAIN x.ent

\* x[r, c].to_dense(): a coordinate that is not stored reads 0
Cell(x, r, c) == IF <<r, c>> \in Stored(x) THEN x.ent[<<r, c>>] ELSE 0

\* x.to_dense()
Dense(x) == [r \in Rows(x) |-> [c \in Cols(x) |-> Cell(x, r, c)]]

\* the triplets of a coordinate set in row-major order, as coo() lists them
RECURSIVE RowMajor(_)
RowMajor(S) ==
    IF S = {} THEN <<>>
    ELSE LET p == CHOOSE p \in S :
                    \A q \in S : p[1] < q[1] \/ (p[1] = q[1] /\ p[2] <= q[2])
         IN  <<p>> \o RowMajor(S \ {p})

\* x.coo(): the stored triplets <<row, col, value>>
Coo(x) ==
    LET ps == RowMajor(Stored(x))
    IN  [i \in 1 .. Len(ps) |-> <<ps[i][1], ps[i][2], x.ent[ps[i]]>>]

\* SparseTensor(row, col, value, sparse_sizes).coalesce(reduce): one entry per
\* coordinate, the values of duplicate coordinates reduced by "add" or "max"
Coalesce(size, trips, reduce) ==
    LET coords == {<<trips[i][1], trips[i][2]>> : i \in DOMAIN trips}
        valsAt(p) == SelectSeq(trips, LAMBDA t : <<t[1], t[2]>> = p)
        vs(p) == [i \in 1 .. Len(valsAt(p)) |-> valsAt(p)[i][3]]
    IN  [size |-> size,
         ent  |-> [p \in coords |->
                     IF reduce = "add" THEN SumSeq(vs(p)) ELSE MaxSeq(vs(p))]]

\* SparseTensor(row, col, value, sparse_sizes) of distinct coordinates
FromTriplets(size, trips) == Coalesce(size, trips, "add")

\* a matrix of shape size storing value w at every coordinate of E
Weighted(size, E, w) == [size |-> size, ent |-> [p \in E |-> w]]
Ones(size, E) == Weighted(size, E, 1)

AllCoords(nr, nc) == (0 .. (nr - 1)) \X (0 .. (nc - 1))

\* the 0/1 interaction matrices of a shape with at most MaxEdges edges
EdgeSets(nr, nc) == {E \in SUBSET AllCoords(nr, nc) : Cardinality(E) <= MaxEdges}

\* M.sum(dim=1) and M.sum(dim=0)
RowSum(x) ==
    [r \in Rows(x) |-> SumSeq([i \in 1 .. x.size[2] |-> Cell(x, r, i - 1)])]
ColSum(x) ==
    [c \in Cols(x) |-> SumSeq([i \in 1 .. x.size[1] |-> Cell(x, i - 1, c)])]

NoMatrix == [size |-> <<0, 0>>, ent |-> <<>>]

\* ------------------------------------------------------- sparse_assign
\* m[i, j]: torch_sparse select/narrow counts a negative index from the end
Wrap(i, n) == IF i < 0 THEN n + i ELSE i

sparse_assign_unguarded(m, i, j, val) ==
    [err |-> "none",
     ret |-> Coalesce(m.size,
                      Coo(m) \o <<<<i, j, val - Cell(m, Wrap(i, m.size[1]),
                                                        Wrap(j, m.size[2]))>>>>,
                      "add")]

sparse_assign_accumulate(m, i, j, val) ==
    IF ~(i < m.size[1] /\ j < m.size[2])
    THEN [err |-> "AssertionError", ret |-> NoMatrix]
    ELSE [err |-> "none",
          ret |-> Coalesce(m.size, Coo(m) \o <<<<i, j, val>>>>, "add")]

sparse_assign(m, i, j, val) ==
    IF ~(i < m.size[1] /\ j < m.size[2])
    THEN [err |-> "AssertionError", ret |-> NoMatrix]
    ELSE sparse_assign_unguarded(m, i, j, val)

\* ---------------------------------------------------------- sparse_cat
\* a stack that leaves the rows of n where they are
sparse_cat_no_offset(m, n) ==
    [err |-> "none",
     ret |-> Coalesce(<<m.size[1] + n.size[1], m.size[2]>>, Coo(m) \o Coo(n), "add")]

sparse_cat_unchecked(m, n) ==
    LET shifted == [i \in 1 .. Len(Coo(n)) |->
                      <<Coo(n)[i][1] + m.size[1], Coo(n)[i][2], Coo(n)[i][3]>>]
    IN  [err |-> "none",
         ret |-> Coalesce(<<m.size[1] + n.size[1], m.size[2]>>,
                          Coo(m) \o shifted, "add")]

sparse_cat(m, n) ==
    IF m.size[2] # n.size[2]
    THEN [err |-> "AssertionError", ret |-> NoMatrix]
    ELSE sparse_cat_unchecked(m, n)

\* ----------------------------------------------------- sparse_batch_op
\* the elementwise operations handed to sparse_batch_op: torch.add, torch.mul
\* and torch.eq (1 where the operands are equal)
Ops == {"add", "mul", "eq"}

ApplyOp(op, a, b) ==
    IF op = "add" THEN a + b
    ELSE IF op = "mul" THEN a * b
    ELSE IF a = b THEN 1 ELSE 0

\* x[i:end, :].to_dense() (lines 123-124) as rows 1 .. end - i
DenseBlock(x, i, end) ==
    [r \in 1 .. (end - i) |-> [c \in Cols(x) |-> Cell(x, i + r - 1, c)]]

\* SparseTensor.from_dense(d) for a block of nr rows and nc columns: the
\* nonzero cells of d
from_dense(d, nr, nc) ==
    [size |-> <<nr, nc>>,
     ent |-> [rc \in {p \in AllCoords(nr, nc) : d[p[1] + 1][p[2]] # 0} |->
                d[rc[1] + 1][rc[2]]]]

\* the loop of lines 120-128 from row i on
RECURSIVE BatchOpLoop(_, _, _, _, _, _)
BatchOpLoop(batch_size, op, m, n, result, i) ==
    IF i >= m.size[1] THEN [err |-> "none", ret |-> result]
    ELSE LET end == Min2(i + batch_size, m.size[1])
             a == DenseBlock(m, i, end)
             b == DenseBlock(n, i, end)
             res == from_dense([r \in 1 .. (end - i) |->
                                  [c \in Cols(m) |-> ApplyOp(op, a[r][c], b[r][c])]],
                               end - i, m.size[2])
             cat == sparse_cat(result, res)
         IN  IF cat.err # "none" THEN cat
             ELSE BatchOpLoop(batch_size, op, m, n, cat.ret, i + batch_size)

\* sparse_batch_op(batch_size, op, m, n)
sparse_batch_op(batch_size, op, m, n) ==
    BatchOpLoop(batch_size, op, m, n, [size |-> <<0, m.size[2]>>, ent |-> <<>>], 0)

\* ------------------------------------------- sparse_re_assign_on_mask
\* the indices a boolean mask selects, ascending: torch.arange(len(mask))[mask]
RECURSIVE Ascending(_)
Ascending(S) ==
    IF S = {} THEN <<>>
    ELSE LET x == CHOOSE x \in S : \A y \in S : x <= y
         IN  <<x>> \o Ascending(S \ {x})
MaskIndices(mask) == Ascending({i \in DOMAIN mask : mask[i]})

\* position (0-based) of index x in the ascending selection sel
RankIn(sel, x) == (CHOOSE p \in 1 .. Len(sel) : sel[p] = x) - 1

\* m[mask, :].coo() (dim = 0) or m[:, mask].coo() (dim = 1): the entries of the
\* selected rows / columns, renumbered by their rank in the selection
MaskedSelectCoo(m, mask, dim) ==
    LET sel  == MaskIndices(mask)
        keep == SelectSeq(Coo(m), LAMBDA t : mask[t[dim + 1]])
    IN  [i \in 1 .. Len(keep) |->
           IF dim = 0 THEN <<RankIn(sel, keep[i][1]), keep[i][2], keep[i][3]>>
           ELSE <<keep[i][1], RankIn(sel, keep[i][2]), keep[i][3]>>]

\* the append of line 91 with val in place of val - prev_value
sparse_re_assign_on_mask_no_delta(m, mask, val, dim) ==
    LET sel  == MaskIndices(mask)
        prev == MaskedSelectCoo(m, mask, dim)
        back == [i \in 1 .. Len(prev) |->
                   IF dim = 0
                   THEN <<sel[prev[i][1] + 1], prev[i][2], val>>
                   ELSE <<prev[i][1], sel[prev[i][2] + 1], val>>]
    IN  Coalesce(m.size, Coo(m) \o back, "add")

sparse_re_assign_on_mask(m, mask, val, dim) ==
    LET sel  == MaskIndices(mask)
        prev == MaskedSelectCoo(m, mask, dim)
        \* restore previous values' indices
        back == [i \in 1 .. Len(prev) |->
                   IF dim = 0
                   THEN <<sel[prev[i][1] + 1], prev[i][2], val - prev[i][3]>>
                   ELSE <<prev[i][1], sel[prev[i][2] + 1], val - prev[i][3]>>]
    IN  Coalesce(m.size, Coo(m) \o back, "add")

\* ------------------------------------------------------ sparse_nonzero
sparse_nonzero(m) == SelectSeq(Coo(m), LAMBDA t : t[3] # 0)

\* the coordinates of the triplets of sparse_nonzero(x)
Edges(x) == {rc \in Stored(x) : x.ent[rc] # 0}

\* --------------------------------------------------- sample_user_items
\* torch.rand(n): each draw is one of the levels 0/RandLevels ..
\* (RandLevels-1)/RandLevels of [0, 1); rnd[i] is the numerator of draw i
RandDraws(n) == [1 .. n -> 0 .. (RandLevels - 1)]

\* the three in-place recodings of lines 171-173, in order
Recode_skip_first(v) ==
    LET b == IF v = 0 THEN 1 ELSE v
    IN  IF b = 2 THEN 0 ELSE b

Recode(v) ==
    LET a == IF v = 1 THEN 2 ELSE v
        b == IF a = 0 THEN 1 ELSE a
    IN  IF b = 2 THEN 0 ELSE b

\* rand_mask of lines 152-154: value == 2 and
\* rand < (value == 2).sum() / len(value) * ratio, with ratio = ratio[1]/ratio[2]
RandMask(nz, ratio, rnd) ==
    LET twos == Len(SelectSeq(nz, LAMBDA t : t[3] = 2))
    IN  [i \in 1 .. Len(nz) |->
           /\ nz[i][3] = 2
           /\ rnd[i] * Len(nz) * ratio[2] < twos * ratio[1] * RandLevels]

\* lines 155-156: value[rand_mask] = 0, then value[value == 2] = 1
KeepOrDrop(nz, mask) ==
    [i \in 1 .. Len(nz) |->
       <<nz[i][1], nz[i][2],
         IF mask[i] THEN 0 ELSE IF nz[i][3] = 2 THEN 1 ELSE nz[i][3]>>]

\* line 150: the rows whose entries may be held out, user_deg > 1
HoldoutRows_any_degree(target) == [r \in Rows(target) |-> RowSum(target)[r] > 0]

HoldoutRows(target) == [r \in Rows(target) |-> RowSum(target)[r] > 1]

sample_user_items(target, ratio, rnd) ==
    LET candidate == sparse_re_assign_on_mask(target, HoldoutRows(target), 2, 0)
        nz        == sparse_nonzero(candidate)
        data      == Coalesce(target.size,
                              KeepOrDrop(nz, RandMask(nz, ratio, rnd)), "add")
        dcoo      == Coo(data)
        target_new_links ==
            Coalesce(target.size,
                     [i \in 1 .. Len(dcoo) |->
                        <<dcoo[i][1], dcoo[i][2], Recode(dcoo[i][3])>>],
                     "add")
    IN  [data |-> data, target |-> target_new_links]

\* the number of draws sample_user_items asks torch.rand for
NumDraws(target) ==
    Len(sparse_nonzero(sparse_re_assign_on_mask(target, HoldoutRows(target), 2, 0)))

\* the positive entries of row r
Positives(x, r) == {c \in Cols(x) : Cell(x, r, c) > 0}

\* --------------------------------------------- mean_average_precision
\* a fraction num/den is the pair <<num, den>>, den > 0
RatEq(a, b) == a[1] * b[2] = b[1] * a[2]
RatLess(a, b) == a[1] * b[2] < b[1] * a[2]
RatAdd(a, b) == <<a[1] * b[2] + b[1] * a[2], a[2] * b[2]>>

RECURSIVE RatSum(_)
RatSum(s) == IF s = <<>> THEN <<0, 1>> ELSE RatAdd(Head(s), RatSum(Tail(s)))

\* np.array(scores).mean()
RatMean(s) == <<RatSum(s)[1], RatSum(s)[2] * Len(s)>>

RECURSIVE Factorial(_)
Factorial(n) == IF n <= 1 THEN 1 ELSE n * Factorial(n - 1)

Range(s) == {s[i] : i \in DOMAIN s}

\* pred[:k]
Prefix(s, k) == SubSeq(s, 1, Min2(k, Len(s)))

\* lines 194-198: rel_at_k[idx, p] = 1 where pred[:k][p] is one of truth
RelAtK(truth, pred, k) ==
    [p \in 1 .. k |->
       IF p <= Len(Prefix(pred, k)) /\ pred[p] \in Range(truth) THEN 1 ELSE 0]

\* lines 201-212 for one row, times k * k!: the sum over the k ranks of
\* rel * cumsum(rel) / rank; the mean over the k ranks divides by k
RowPrecisionSum(truth, pred, k) ==
    LET rel == RelAtK(truth, pred, k)
        cum == [p \in 1 .. k |-> SumSeq(SubSeq(rel, 1, p))]
    IN  SumSeq([p \in 1 .. k |-> rel[p] * cum[p] * (Factorial(k) \div p)])

mean_average_precision(y_true, y_pred, k) ==
    <<SumSeq([i \in 1 .. Len(y_true) |-> RowPrecisionSum(y_true[i], y_pred[i], k)]),
      Len(y_true) * k * Factorial(k)>>

\* ------------------------------------------------------- LinkPropMulti
RECURSIVE Gcd(_, _)
Gcd(a, b) == IF b = 0 THEN a ELSE Gcd(b, a % b)

RECURSIVE LcmUpTo(_)
LcmUpTo(n) == IF n <= 1 THEN 1 ELSE (LcmUpTo(n - 1) * n) \div Gcd(LcmUpTo(n - 1), n)

\* Reweighted values are kept in fixed point. A degree of a 0/1 matrix of
\* shape size is at most max(rows, cols), so degree ** (-1) times
\* DegScale(size) is an integer.
DegScale(size) == LcmUpTo(Max2(size[1], size[2]))

\* the fixed-point scale of degrees ** (-e)
ExpScale(e, size) == IF e > 0 THEN Pow(DegScale(size), e) ELSE 1

\* degrees ** (-e) with every factor of a zero degree set to 0
ExpWeight_zero_degree_is_zero(deg, e, size) ==
    IF deg = 0 THEN 0
    ELSE IF e = 0 THEN 1
         ELSE IF e > 0 THEN Pow(DegScale(size) \div deg, e) ELSE Pow(deg, 0 - e)

\* lines 259-268: degrees ** (-e), with inf (a zero degree under a positive
\* exponent) set to 0.0; times ExpScale(e, size)
ExpWeight(deg, e, size) ==
    IF e = 0 THEN 1
    ELSE IF e > 0
         THEN IF deg = 0 THEN 0 ELSE Pow(DegScale(size) \div deg, e)
         ELSE Pow(deg, 0 - e)

None == <<>>

\* LinkPropMulti.__init__
NewLinkProp(alpha, beta, gamma, delta, rounds, t, k) ==
    [rounds |-> rounds, k |-> k, t |-> t,
     alpha |-> alpha, beta |-> beta, gamma |-> gamma, delta |-> delta,
     user_degrees |-> None, item_degrees |-> None,
     M_alpha_beta |-> NoMatrix, M_gamma_delta |-> NoMatrix,
     scale_ab |-> 1, scale_gd |-> 1]

\* LinkPropMulti.set_params
set_params(self, alpha, beta, gamma, delta, rounds, t, k) ==
    [self EXCEPT !.rounds = rounds, !.k = k, !.t = t, !.alpha = alpha,
                 !.beta = beta, !.gamma = gamma, !.delta = delta]

\* lines 274-286: one reweighted copy of X over its nonzero entries
Reweighted(X, udeg, ideg, eu, ei) ==
    LET nz == sparse_nonzero(X)
    IN  FromTriplets(X.size,
            [n \in 1 .. Len(nz) |->
               <<nz[n][1], nz[n][2],
                 ExpWeight(udeg[nz[n][1]], eu, X.size)
                   * ExpWeight(ideg[nz[n][2]], ei, X.size) * nz[n][3]>>])

\* a fit that takes the degrees of X on every call
fit_recompute_degrees(self, X) ==
    [self EXCEPT
        !.user_degrees = RowSum(X),
        !.item_degrees = ColSum(X),
        !.M_alpha_beta = Reweighted(X, RowSum(X), ColSum(X), self.alpha, self.beta),
        !.M_gamma_delta = Reweighted(X, RowSum(X), ColSum(X), self.gamma, self.delta),
        !.scale_ab = ExpScale(self.alpha, X.size) * ExpScale(self.beta, X.size),
        !.scale_gd = ExpScale(self.gamma, X.size) * ExpScale(self.delta, X.size)]

\* LinkPropMulti.fit
fit(self, X) ==
    LET udeg == IF self.user_degrees = None THEN RowSum(X) ELSE self.user_degrees
        ideg == IF self.user_degrees = None THEN ColSum(X) ELSE self.item_degrees
    IN  [self EXCEPT
            !.user_degrees = udeg,
            !.item_degrees = ideg,
            !.M_alpha_beta = Reweighted(X, udeg, ideg, self.alpha, self.beta),
            !.M_gamma_delta = Reweighted(X, udeg, ideg, self.gamma, self.delta),
            !.scale_ab = ExpScale(self.alpha, X.size) * ExpScale(self.beta, X.size),
            !.scale_gd = ExpScale(self.gamma, X.size) * ExpScale(self.delta, X.size)]

\* matmul(matmul(A[start:end], B.t()), C) as dense rows 1 .. end - start
TwoHop(A, B, C, start, end) ==
    [r \in 1 .. (end - start) |->
       [c \in Cols(C) |->
          SumSeq([jv \in 1 .. (A.size[2] * B.size[1]) |->
                    LET j == (jv - 1) % A.size[2]
                        v == (jv - 1) \div A.size[2]
                    IN  Cell(A, start + r - 1, j) * Cell(B, v, j) * Cell(C, v, c)])]]

\* LinkPropMulti.get_preds_for_users: the middle factor is the module-level
\* M of line 485 (Mmod); the matrix X given to predict_topk is not read
get_preds_for_users(self, Mmod, X, start, end) ==
    TwoHop(self.M_alpha_beta, Mmod, self.M_gamma_delta, start, end)

\* the sentinel subtracted from observed cells (line 347)
Sentinel == 100000

\* (score - observed * 100000).clamp(min=0) for one cell, in fixed point
\* with scale d: score stands for score / d
MaskedCell(score, observed, d) ==
    IF ~observed THEN Max2(score, 0)
    ELSE IF (score \div d) > Sentinel
            \/ ((score \div d) = Sentinel /\ score % d > 0)
         THEN score - Sentinel * d
         ELSE 0

\* lines 344-348: the dense scores of the batch with the observed links
\* (cells of X equal to 1) taken out
MaskedScores(self, Mmod, X, start, end) ==
    LET pred == get_preds_for_users(self, Mmod, X, start, end)
    IN  [r \in 1 .. (end - start) |->
           [c \in Cols(X) |->
              MaskedCell(pred[r][c], Cell(X, start + r - 1, c) = 1,
                         self.scale_ab * self.scale_gd)]]

\* torch.topk(k) of one row: k distinct columns in non-increasing order of
\* value, none left out that is larger than one taken; the order among equal
\* values is not specified, so every such order is an outcome
TopkOrders(vals, k) ==
    {s \in [1 .. k -> DOMAIN vals] :
        /\ \A p, q \in 1 .. k : p < q => (s[p] # s[q] /\ vals[s[p]] >= vals[s[q]])
        /\ \A c \in DOMAIN vals :
             (\A p \in 1 .. k : s[p] # c) => \A p \in 1 .. k : vals[c] <= vals[s[p]]}

\* lines 351-354 for one row without the > 0 filter
RowTopk_keep_zeros(vals, k) == TopkOrders(vals, k)

\* lines 351-354 for one row: the indices whose value is > 0, in topk order
RowTopk(vals, k) ==
    {SelectSeq(s, LAMBDA c : vals[c] > 0) : s \in TopkOrders(vals, k)}

\* the per-row index lists of the first n rows of a dense batch, one outcome
\* per choice of orders
RECURSIVE BatchTopkUpTo(_, _, _)
BatchTopkUpTo(dense, k, n) ==
    IF n = 0 THEN {<<>>}
    ELSE {Append(rest, row) : rest \in BatchTopkUpTo(dense, k, n - 1),
                              row \in RowTopk(dense[n], k)}

BatchTopk(dense, k) == BatchTopkUpTo(dense, k, Len(dense))

\* predict_topk raises when the row slice [start, end) leaves the matrix or
\* when topk is asked for more columns than there are
predict_topk_fails(X, end, k) == end > X.size[1] \/ k > X.size[2]

\* LinkPropMulti.predict_topk: the set of results it can return
predict_topk(self, Mmod, X, start, end, k) ==
    BatchTopk(MaskedScores(self, Mmod, X, start, end), k)

\* ----------------------------------------------- LinkPropMulti.fit_multi
\* line 296: M[start:end].to_dense().sum()
number_of_links(X, start, end) ==
    SumSeq([n \in 1 .. (end - start) |-> RowSum(X)[start + n - 1]])

\* line 297: k = math.ceil(number_of_links * self.t / (end - start))
LinkBudget(self, X, start, end) ==
    CeilDiv(number_of_links(X, start, end) * self.t[1], self.t[2] * (end - start))

\* lines 301-306: the <<start + i, col>> pairs of the first n predicted rows,
\* with the value 1 of line 322
RECURSIVE NewLinkTriplets(_, _, _)
NewLinkTriplets(start, preds, n) ==
    IF n = 0 THEN <<>>
    ELSE NewLinkTriplets(start, preds, n - 1)
           \o [i \in 1 .. Len(preds[n]) |-> <<start + n - 1, preds[n][i], 1>>]

\* a merge that keeps only the predicted links
AddLinks_links_only(M_new, size, start, preds) ==
    Coalesce(size, NewLinkTriplets(start, preds, Len(preds)), "max")

\* the merge of lines 307-327 with coalesce("add")
AddLinks_add(M_new, size, start, preds) ==
    Coalesce(size, Coo(M_new) \o NewLinkTriplets(start, preds, Len(preds)), "add")

\* lines 307-327: M_new with the predicted links appended, coalesce("max")
AddLinks(M_new, size, start, preds) ==
    Coalesce(size, Coo(M_new) \o NewLinkTriplets(start, preds, Len(preds)), "max")

\* lines 295-327 for one batch: every M_new the merge of the batch's
\* predictions can give; the predictions and their number are taken from X
BatchMerge(self, Mmod, X, M_new, start, end) ==
    {AddLinks(M_new, X.size, start, preds) :
       preds \in predict_topk(self, Mmod, X, start, end,
                              LinkBudget(self, X, start, end))}

\* the batch loop of lines 293-327 from batch start on: every M_new it can
\* end with; merges lists M_new after the merge of each batch behind it
RECURSIVE FitMultiBatches(_, _, _, _, _, _, _, _)
FitMultiBatches(self, Mmod, X, M_new, batch_size, total, start, merges) ==
    IF start >= total THEN {[err |-> "none", M_new |-> M_new, merges |-> merges]}
    ELSE LET end == Min2(start + batch_size, total)
             k == LinkBudget(self, X, start, end)
         IN  IF end > X.size[1] \/ predict_topk_fails(X, end, k)
             THEN {[err |-> "RuntimeError", M_new |-> M_new, merges |-> merges]}
             ELSE UNION {FitMultiBatches(self, Mmod, X, grown,
                                         batch_size, total, start + batch_size,
                                         Append(merges, [start |-> start, end |-> end,
                                                         M_new |-> grown])) :
                           grown \in BatchMerge(self, Mmod, X, M_new, start, end)}

\* the batches of range(0, total, batch_size) (lines 293-294)
Batches(batch_size, total) ==
    [j \in 1 .. CeilDiv(total, batch_size) |->
       <<(j - 1) * batch_size, Min2(j * batch_size, total)>>]

\* the loop body of lines 294-327 run over the batches in the order given:
\* every M_new the sweep can end with
RECURSIVE SweepInOrder(_, _, _, _, _)
SweepInOrder(self, Mmod, X, M_new, batches) ==
    IF batches = <<>> THEN {M_new}
    ELSE UNION {SweepInOrder(self, Mmod, X, grown, Tail(batches)) :
                  grown \in BatchMerge(self, Mmod, X, M_new,
                                       Head(batches)[1], Head(batches)[2])}

\* a round end that leaves the cached degrees as they were
WithDegreesOf_kept(self, M_new) == self

\* lines 330-331: the degrees of the augmented matrix become the cached ones
WithDegreesOf(self, M_new) ==
    [self EXCEPT !.user_degrees = RowSum(M_new), !.item_degrees = ColSum(M_new)]

\* the matrix the name M stands for after a round that wrote its merges into
\* the working copy
MatrixAfterRound_merged(X, M_new) == M_new

\* lines 292-332: a round clones M into M_new (line 292), writes every merge
\* to M_new (line 308) and assigns nothing to M
MatrixAfterRound(X, M_new) == X

\* the round loop of lines 290-332 with n rounds left; done lists, for the
\* rounds behind it, the merged matrix M_new, the merges of its batches and
\* the predictor after the round's fit; open lists the merges of a round
\* that raised
RECURSIVE FitMultiRounds(_, _, _, _, _, _, _)
FitMultiRounds(self, Mmod, X, batch_size, total, n, done) ==
    IF n <= 0 THEN {[err |-> "none", self |-> self, M |-> X, rounds |-> done,
                     open |-> <<>>]}
    ELSE UNION {
           IF b.err # "none"
           THEN {[err |-> b.err, self |-> self, M |-> X, rounds |-> done,
                  open |-> b.merges]}
           ELSE LET base == MatrixAfterRound(X, b.M_new)
                    refit == fit(WithDegreesOf(self, b.M_new), base)
                IN  FitMultiRounds(refit, Mmod, base, batch_size, total, n - 1,
                                   Append(done, [M_new |-> b.M_new,
                                                 self |-> refit,
                                                 merges |-> b.merges])) :
           b \in FitMultiBatches(self, Mmod, X, X, batch_size, total, 0, <<>>)}

\* a loop of self.rounds augmentation rounds
AugmentationRounds_inclusive(self) == self.rounds

\* line 290: range(self.rounds - 1)
AugmentationRounds(self) == self.rounds - 1

\* LinkPropMulti.fit_multi: the set of its outcomes
fit_multi(self, Mmod, X, batch_size, total) ==
    FitMultiRounds(fit(self, X), Mmod, X, batch_size, total,
                   AugmentationRounds(self), <<>>)

\* --------------------------------------------------- LinkPropMulti.score
\* line 389: y[start:end].to_dense().squeeze().topk(self.k, dim=1) raises when
\* the slice leaves y, when squeeze() drops a dimension of size 1 (a batch of
\* one row, or a y of one column) so that dim=1 no longer exists, or when k
\* exceeds the number of columns of y
target_topk_fails(y, start, end, k) ==
    \/ end > y.size[1]
    \/ end - start = 1
    \/ y.size[2] = 1
    \/ k > y.size[2]

DenseRows(y, start, end) ==
    [r \in 1 .. (end - start) |-> [c \in Cols(y) |-> Cell(y, start + r - 1, c)]]

NoBatch(err) == [err |-> err, user_pred |-> <<>>, target_pred |-> <<>>]

\* lines 398-399: np.concatenate((acc, lists), dtype=object) turns a list of
\* arrays of one common length into a 2-D array, which cannot be joined to
\* the 1-D accumulator (ValueError); a ragged list becomes a 1-D object array
\* (NumPy 1.20 to 1.23)
concatenate_fails(lists) ==
    \A p, q \in DOMAIN lists : Len(lists[p]) = Len(lists[q])

\* lines 388-400 for one batch: the outcomes of the two topk calls
ScoreBatch(self, Mmod, X, y, start, end) ==
    IF predict_topk_fails(X, end, self.k) THEN {NoBatch("RuntimeError")}
    ELSE IF target_topk_fails(y, start, end, self.k) THEN {NoBatch("IndexError")}
    ELSE {IF concatenate_fails(u) \/ concatenate_fails(tp)
          THEN NoBatch("ValueError")
          ELSE [err |-> "none", user_pred |-> u, target_pred |-> tp] :
             u \in predict_topk(self, Mmod, X, start, end, self.k),
             tp \in BatchTopk(DenseRows(y, start, end), self.k)}

NoRun(err) == [err |-> err, user_topk |-> <<>>, target_topk |-> <<>>, scores |-> <<>>]

\* the loop of lines 386-401 from batch start on: the concatenated lists and
\* the per-batch MAP values of every outcome
RECURSIVE ScoreFrom(_, _, _, _, _, _, _)
ScoreFrom(self, Mmod, X, y, batch_size, total, start) ==
    IF start >= total THEN {NoRun("none")}
    ELSE LET end == Min2(start + batch_size, total)
         IN  UNION {
               IF b.err # "none" THEN {NoRun(b.err)}
               ELSE {IF rest.err # "none" THEN rest
                     ELSE [err |-> "none",
                           user_topk |-> b.user_pred \o rest.user_topk,
                           target_topk |-> b.target_pred \o rest.target_topk,
                           scores |-> <<mean_average_precision(
                                           b.target_pred, b.user_pred, self.k)>>
                                      \o rest.scores] :
                       rest \in ScoreFrom(self, Mmod, X, y, batch_size, total,
                                          start + batch_size)} :
               b \in ScoreBatch(self, Mmod, X, y, start, end)}

\* line 403: np.array(scores).mean()
ScoreValue(run, k) == RatMean(run.scores)

\* LinkPropMulti.score: the set of its outcomes
score(self, Mmod, X, y, batch_size, total) ==
    {[err |-> run.err,
      ret |-> IF run.err = "none" THEN ScoreValue(run, self.k) ELSE <<0, 1>>,
      user_topk |-> run.user_topk,
      target_topk |-> run.target_topk] :
        run \in ScoreFrom(self, Mmod, X, y, batch_size, total, 0)}

\* ============================================================ state
NoCall == [op |-> "none"]
NoSplit == [data |-> NoMatrix, target |-> NoMatrix]
NoLp == [fitted |-> FALSE]

Shape == <<NumRows, NumCols>>

\* the interaction matrices load_data can produce: value 1 at every edge
\* (lines 44-49, coalesce("max") of ones)
LoadedMatrices == {Ones(Shape, E) : E \in EdgeSets(NumRows, NumCols)}

\* ratio as numerator/denominator: 0, 0.4 (line 147) and 1
Ratios == {<<0, 1>>, <<2, 5>>, <<1, 1>>}

\* ------------------------------------------------ sparse primitives
InBounds(x, i, j) == i \in Rows(x) /\ j \in Cols(x)

InitSparse ==
    /\ inp \in {Weighted(Shape, E, w) :
                  E \in EdgeSets(NumRows, NumCols), w \in 0 .. MaxVal}
    /\ call = NoCall
    /\ M = NoMatrix /\ lp = NoLp /\ split = NoSplit

SparseAssign ==
    /\ call.op = "none"
    /\ \E i \in -1 .. NumRows, j \in -1 .. NumCols, val \in 0 .. MaxVal :
         LET r == sparse_assign(inp, i, j, val)
         IN  call' = [op |-> "sparse_assign", m |-> inp, i |-> i, j |-> j,
                      val |-> val, err |-> r.err, ret |-> r.ret]
    /\ UNCHANGED <<M, lp, split, inp>>

\* the second operand of sparse_cat: one row of ones, of any width up to NumCols
CatOperands ==
    UNION {{Ones(<<1, nc>>, E) : E \in SUBSET AllCoords(1, nc)} : nc \in 1 .. NumCols}

SparseCat ==
    /\ call.op = "none"
    /\ \E n \in CatOperands :
         LET r == sparse_cat(inp, n)
         IN  call' = [op |-> "sparse_cat", m |-> inp, n |-> n,
                      err |-> r.err, ret |-> r.ret]
    /\ UNCHANGED <<M, lp, split, inp>>

\* one batch step of fit_multi's merge (lines 301-327) for the batch
\* [r, r + 1) with the single predicted link (r, c), then lines 330-331
MergeEdge ==
    /\ call.op = "none"
    /\ \E r \in Rows(inp), c \in Cols(inp) :
         LET merged == AddLinks(inp, inp.size, r, <<<<c>>>>)
         IN  call' = [op |-> "merge", m |-> inp, r |-> r, c |-> c, ret |-> merged,
                      user_degrees |-> RowSum(merged),
                      item_degrees |-> ColSum(merged)]
    /\ UNCHANGED <<M, lp, split, inp>>

\* sparse_re_assign_on_mask(m, mask, val, dim) with a boolean mask as long as
\* the masked dimension
ReAssignOnMask ==
    /\ call.op = "none"
    /\ \E dim \in {0, 1}, val \in 0 .. MaxVal :
         \E mask \in [0 .. (inp.size[dim + 1] - 1) -> BOOLEAN] :
            call' = [op |-> "sparse_re_assign_on_mask", m |-> inp, mask |-> mask,
                     val |-> val, dim |-> dim,
                     ret |-> sparse_re_assign_on_mask(inp, mask, val, dim)]
    /\ UNCHANGED <<M, lp, split, inp>>

NextSparse == SparseAssign \/ SparseCat \/ MergeEdge \/ ReAssignOnMask

SpecSparse == InitSparse /\ [][NextSparse]_vars

\* ------------------------------------------------ sparse_batch_op
\* the first operand: a matrix of one more row than Shape
TallShape == <<NumRows + 1, NumCols>>

InitBatchOp ==
    /\ inp \in {Weighted(TallShape, E, MaxVal) : E \in EdgeSets(NumRows + 1, NumCols)}
    /\ call = NoCall
    /\ M = NoMatrix /\ lp = NoLp /\ split = NoSplit

\* the second operand: no edge, one edge in the first column, or an edge at
\* every cell
SecondOperands ==
    {Ones(TallShape, E) :
       E \in {{}, AllCoords(NumRows + 1, NumCols)}
               \cup {{<<r, 0>>} : r \in 0 .. NumRows}}

\* sparse_batch_op(batch_size, op, m, n) with every batch_size up to one
\* above the row count
SparseBatchOp ==
    /\ call.op = "none"
    /\ \E batch_size \in 1 .. (NumRows + 2), op \in Ops, n \in SecondOperands :
         LET r == sparse_batch_op(batch_size, op, inp, n)
         IN  call' = [op |-> "sparse_batch_op", batch_size |-> batch_size,
                      fn |-> op, m |-> inp, n |-> n, err |-> r.err, ret |-> r.ret]
    /\ UNCHANGED <<M, lp, split, inp>>

NextBatchOp == SparseBatchOp

SpecBatchOp == InitBatchOp /\ [][NextBatchOp]_vars

\* -------------------------------------------------------- predictor
\* (alpha, beta, gamma, delta): no reweighting (line 454), full inverse-degree
\* reweighting, reweighting of the user side only, and a boosting (negative)
\* alpha
ParamSets == {<<0, 0, 0, 0>>, <<1, 1, 1, 1>>, <<1, 0, 1, 0>>, <<0 - Boost, 0, 0, 0>>}

\* t = 0.05 (line 454)
DefaultT == <<1, 20>>

Ks == 1 .. NumCols

\* the row ranges [start, end) of a matrix
RowRanges(x) == {se \in (0 .. x.size[1]) \X (0 .. x.size[1]) : se[1] < se[2]}

Init ==
    /\ M \in LoadedMatrices
    /\ split = NoSplit
    /\ lp = NoLp
    /\ call = NoCall
    /\ inp = NoMatrix

\* data, target = sample_user_items(M, ratio) (line 490)
SampleSplit ==
    /\ split = NoSplit
    /\ \E ratio \in Ratios, rnd \in RandDraws(NumDraws(M)) :
         split' = sample_user_items(M, ratio, rnd)
    /\ call' = [op |-> "sample_user_items"]
    /\ UNCHANGED <<M, lp, inp>>

\* linkProp = LinkPropMulti(...) (lines 407, 432, 454)
Construct ==
    /\ split # NoSplit
    /\ lp = NoLp
    /\ \E ps \in ParamSets :
         lp' = NewLinkProp(ps[1], ps[2], ps[3], ps[4], 1, DefaultT, NumCols)
    /\ call' = [op |-> "init"]
    /\ UNCHANGED <<M, split, inp>>

\* linkProp.fit(X) on the observed view of the split (lines 459, 471)
Fit ==
    /\ lp # NoLp
    /\ call.op = "init"
    /\ lp' = fit(lp, split.data)
    /\ call' = [op |-> "fit", X |-> split.data]
    /\ UNCHANGED <<M, split, inp>>

Fitted == lp # NoLp /\ lp.M_alpha_beta # NoMatrix

\* linkProp.predict_topk(X, start, end, k) on the matrix last fitted
PredictTopk ==
    /\ Fitted
    /\ call.op = "fit"
    /\ \E se \in RowRanges(call.X), k \in Ks :
         \E res \in predict_topk(lp, M, call.X, se[1], se[2], k) :
            call' = [op |-> "predict_topk", X |-> call.X, start |-> se[1],
                     end |-> se[2], k |-> k, ret |-> res]
    /\ UNCHANGED <<M, lp, split, inp>>

Next == SampleSplit \/ Construct \/ Fit \/ PredictTopk

Spec == Init /\ [][Next]_vars

\* ------------------------------------------- fitting an instance again
\* linkProp.set_params(...) on a fitted predictor (line 458)
SetParams ==
    /\ Fitted
    /\ call.op = "fit"
    /\ \E ps \in ParamSets :
         lp' = set_params(lp, ps[1], ps[2], ps[3], ps[4], 1, DefaultT, NumCols)
    /\ call' = [op |-> "set_params", pre |-> lp]
    /\ UNCHANGED <<M, split, inp>>

\* linkProp.fit(M2) on a fitted predictor: the observed view of the current
\* split (line 459) or the loaded matrix (line 415)
Refit ==
    /\ Fitted
    /\ call.op \in {"fit", "set_params"}
    /\ \E X \in {split.data, M} :
         /\ lp' = fit(lp, X)
         /\ call' = [op |-> "fit", X |-> X, pre |-> lp]
    /\ UNCHANGED <<M, split, inp>>

NextRefit == SampleSplit \/ Construct \/ Fit \/ SetParams \/ Refit

SpecRefit == Init /\ [][NextRefit]_vars

\* ------------------------------------------------------ fit_multi
MultiParams == {<<1, 1, 1, 1>>}

\* rounds = 1 (lines 412, 454), and a predictor with one augmentation round
RoundChoices == {1, 2}

\* linkProp = LinkPropMulti(alpha, beta, gamma, delta, rounds, t, k) with
\* t = 0.05 (lines 432, 491)
ConstructRounds ==
    /\ split # NoSplit
    /\ lp = NoLp
    /\ \E ps \in MultiParams, rounds \in RoundChoices :
         lp' = NewLinkProp(ps[1], ps[2], ps[3], ps[4], rounds, DefaultT, NumCols)
    /\ call' = [op |-> "init"]
    /\ UNCHANGED <<M, split, inp>>

\* linkProp.fit(M) on the loaded matrix (line 415)
FitLoaded ==
    /\ lp # NoLp
    /\ call.op = "init"
    /\ lp' = fit(lp, M)
    /\ call' = [op |-> "fit", X |-> M]
    /\ UNCHANGED <<M, split, inp>>

\* linkProp.fit_multi(X, batch_size, total) (line 441)
FitMultiCall(batch_size, total) ==
    /\ lp # NoLp
    /\ call.op \in {"init", "fit"}
    /\ \E res \in fit_multi(lp, M, split.data, batch_size, total) :
         /\ lp' = res.self
         /\ split' = [split EXCEPT !.data = res.M]
         /\ call' = [op |-> "fit_multi", pre |-> lp, X |-> split.data,
                     batch_size |-> batch_size, total |-> total,
                     err |-> res.err, rounds |-> res.rounds,
                     open |-> res.open,
                     rounds_done |-> Len(res.rounds)]
    /\ UNCHANGED <<M, inp>>

\* fit_multi over all the rows of X
FitMulti ==
    \E batch_size \in 1 .. NumRows, total \in {split.data.size[1]} :
       FitMultiCall(batch_size, total)

\* fit_multi with a total below or above the row count of X (the default
\* total=1000 of line 288 is above it for a small X)
FitMultiTotal ==
    \E batch_size \in 1 .. NumRows,
       total \in (1 .. (split.data.size[1] + 1)) \ {split.data.size[1]} :
       FitMultiCall(batch_size, total)

NextMulti == SampleSplit \/ ConstructRounds \/ FitLoaded \/ FitMulti

SpecMulti == Init /\ [][NextMulti]_vars

\* ------------------------------------ the batches of a round reordered
\* the orders of n batches
Orders(n) == {o \in [1 .. n -> 1 .. n] : \A p, q \in 1 .. n : p # q => o[p] # o[q]}

\* one sweep of a round of fit_multi (lines 292-331) on the fitted predictor,
\* with its batches taken in the order of line 293 and in the order o
SweepReordered ==
    /\ Fitted
    /\ call.op = "fit"
    /\ \E batch_size \in 1 .. NumRows :
         LET bs == Batches(batch_size, call.X.size[1])
         IN  \E o \in Orders(Len(bs)) :
                LET straight == SweepInOrder(lp, M, call.X, call.X, bs)
                    other == SweepInOrder(lp, M, call.X, call.X,
                                          [j \in DOMAIN bs |-> bs[o[j]]])
                IN  call' = [op |-> "sweep", X |-> call.X, batch_size |-> batch_size,
                             order |-> o, straight |-> straight, other |-> other,
                             straight_degrees |->
                                {<<RowSum(m), ColSum(m)>> : m \in straight},
                             other_degrees |->
                                {<<RowSum(m), ColSum(m)>> : m \in other}]
    /\ UNCHANGED <<M, lp, split, inp>>

NextSweep == SampleSplit \/ Construct \/ Fit \/ SweepReordered

SpecSweep == Init /\ [][NextSweep]_vars

\* ------------------------------------ two runs on one observed matrix
\* the splits of another loaded matrix whose observed view has the entries
\* of X
OtherRuns(X) ==
    UNION {{[M |-> M2, split |-> sample_user_items(M2, ratio, rnd)] :
              ratio \in Ratios, rnd \in RandDraws(NumDraws(M2))} :
           M2 \in LoadedMatrices \ {M}}

\* predict_topk(X, start, end, k) in this run and in a run of the program
\* that loaded another matrix (line 485), drew a split with the same observed
\* matrix (line 490) and fitted a predictor of the same parameters on it
PredictTwoRuns ==
    /\ Fitted
    /\ call.op = "fit"
    /\ call.X = split.data
    /\ \E run \in {o \in OtherRuns(call.X) : Dense(o.split.data) = Dense(call.X)},
          se \in RowRanges(call.X), k \in Ks :
         LET other == fit(NewLinkProp(lp.alpha, lp.beta, lp.gamma, lp.delta,
                                      lp.rounds, lp.t, lp.k), run.split.data)
         IN  call' = [op |-> "predict_topk_twice", X |-> call.X,
                      start |-> se[1], end |-> se[2], k |-> k,
                      other_M |-> run.M, other_target |-> run.split.target,
                      ret |-> predict_topk(lp, M, call.X, se[1], se[2], k),
                      other_ret |-> predict_topk(other, run.M, run.split.data,
                                                 se[1], se[2], k)]
    /\ UNCHANGED <<M, lp, split, inp>>

NextTwoRuns == SampleSplit \/ Construct \/ Fit \/ PredictTwoRuns

SpecTwoRuns == Init /\ [][NextTwoRuns]_vars

\* ------------------------------- sweeps that stop off the last row
NextBatch == SampleSplit \/ ConstructRounds \/ FitMultiTotal

SpecBatch == Init /\ [][NextBatch]_vars

\* --------------------------------------- several augmentation rounds
\* loaded matrices with one more column than Shape and at most one more edge
\* than MaxEdges
RoundsMatrices ==
    {Ones(<<NumRows, NumCols + 1>>, E) :
        E \in {F \in SUBSET AllCoords(NumRows, NumCols + 1) :
                 Cardinality(F) <= MaxEdges + 1}}

InitRounds ==
    /\ M \in RoundsMatrices
    /\ split = NoSplit
    /\ lp = NoLp
    /\ call = NoCall
    /\ inp = NoMatrix

\* linkProp = LinkPropMulti(alpha, beta, gamma, delta, rounds, t, k) with
\* several rounds (line 432; line 491 passes rounds = 9)
ConstructManyRounds ==
    /\ split # NoSplit
    /\ lp = NoLp
    /\ \E ps \in MultiParams :
         lp' = NewLinkProp(ps[1], ps[2], ps[3], ps[4], ManyRounds, DefaultT,
                           NumCols)
    /\ call' = [op |-> "init"]
    /\ UNCHANGED <<M, split, inp>>

NextRounds == SampleSplit \/ ConstructManyRounds \/ FitMulti

SpecRounds == InitRounds /\ [][NextRounds]_vars

\* ------------------------------------------------ MAP@k as a function
\* the lists of distinct column ids
IdLists ==
    UNION {{s \in [1 .. n -> 0 .. (NumCols - 1)] :
              \A p, q \in 1 .. n : p # q => s[p] # s[q]} : n \in 0 .. NumCols}

InitMAP ==
    /\ inp \in UNION {{[k |-> k, y_true |-> yt] :
                         k \in Ks, yt \in [1 .. n -> IdLists]} : n \in 1 .. NumRows}
    /\ call = NoCall
    /\ M = NoMatrix /\ lp = NoLp /\ split = NoSplit

MeanAveragePrecision ==
    /\ call.op = "none"
    /\ \E yp \in [DOMAIN inp.y_true -> IdLists] :
         call' = [op |-> "mean_average_precision", y_true |-> inp.y_true,
                  y_pred |-> yp, k |-> inp.k,
                  ret |-> mean_average_precision(inp.y_true, yp, inp.k)]
    /\ UNCHANGED <<M, lp, split, inp>>

NextMAP == MeanAveragePrecision

SpecMAP == InitMAP /\ [][NextMAP]_vars

\* ---------------------------------------------------------- scoring
\* the customers that have transactions: one in each batch when the rows are
\* scored in batches of ScoreRows - 2
ActiveRows == {0, ScoreRows - 2}

\* interaction matrices of ScoreRows rows whose edges lie in the active rows
ScoreMatrices ==
    {Ones(<<ScoreRows, NumCols>>, E) :
        E \in SUBSET (ActiveRows \X (0 .. (NumCols - 1)))}

\* a target of another shape: one more row, or one more column
Taller(y) == [y EXCEPT !.size = <<y.size[1] + 1, y.size[2]>>]
Wider(y) == [y EXCEPT !.size = <<y.size[1], y.size[2] + 1>>]

InitScore ==
    /\ M \in ScoreMatrices
    /\ split = NoSplit
    /\ lp = NoLp
    /\ call = NoCall
    /\ inp = NoMatrix

\* score, preds = linkProp.score(X, y, batch_size, total) (line 442)
Score ==
    /\ Fitted
    /\ call.op = "fit"
    /\ \E y \in {split.target, Taller(split.target), Wider(split.target)},
          batch_size \in 1 .. ScoreRows, total \in 1 .. ScoreRows :
         \E res \in score(lp, M, call.X, y, batch_size, total) :
            call' = [op |-> "score", X |-> call.X, y |-> y,
                     batch_size |-> batch_size, total |-> total,
                     err |-> res.err, ret |-> res.ret,
                     user_topk |-> res.user_topk, target_topk |-> res.target_topk]
    /\ UNCHANGED <<M, lp, split, inp>>

NextScore == SampleSplit \/ Construct \/ Fit \/ Score

SpecScore == InitScore /\ [][NextScore]_vars

\* ------------------------------------------------- the 4 x 3 example
ExampleShape == <<4, 3>>
ExampleEdges == {<<0, 0>>, <<0, 1>>, <<1, 2>>, <<2, 0>>, <<2, 1>>, <<2, 2>>}
Example == Ones(ExampleShape, ExampleEdges)

\* the loaded matrices of which the example is the whole or an observed view:
\* the example's edges and at most one more
ExampleMatrices ==
    {Ones(ExampleShape, ExampleEdges \cup extra) :
        extra \in {e \in SUBSET (AllCoords(4, 3) \ ExampleEdges) :
                     Cardinality(e) <= 1}}

InitExample ==
    /\ M \in ExampleMatrices
    /\ split = NoSplit
    /\ lp = NoLp
    /\ call = NoCall
    /\ inp = NoMatrix

\* LinkPropMulti(alpha=0, beta=0, gamma=0, delta=0, rounds=1, t=0.05, k=2)
ConstructExample ==
    /\ split # NoSplit
    /\ lp = NoLp
    /\ lp' = NewLinkProp(0, 0, 0, 0, 1, DefaultT, 2)
    /\ call' = [op |-> "init"]
    /\ UNCHANGED <<M, split, inp>>

NextExample == SampleSplit \/ ConstructExample \/ Fit \/ PredictTopk

SpecExample == InitExample /\ [][NextExample]_vars

\* ------------------------------------------------------ param_search
\* k=12 (lines 454, 458) and the defaults batch_size=600, total=1000 of score
\* (line 382)
SearchK == 12
DefaultBatchSize == 600
DefaultTotal == 1000

\* the first point of the grid of lines 448-453, as exponents
FirstGridPoint == <<1, 1, 1, 1>>

\* the keyword arguments of line 458: **params, k=12, rounds=1
SearchKwargs(params) ==
    [alpha |-> params[1], beta |-> params[2], gamma |-> params[3],
     delta |-> params[4], k |-> SearchK, rounds |-> 1]

\* a call set_params(**kw): Python raises TypeError when a parameter of the
\* signature (line 237) has no argument
set_params_kwargs(self, kw) ==
    IF {"alpha", "beta", "gamma", "delta", "rounds", "t", "k"} \subseteq DOMAIN kw
    THEN [err |-> "none",
          self |-> set_params(self, kw.alpha, kw.beta, kw.gamma, kw.delta,
                              kw.rounds, kw.t, kw.k)]
    ELSE [err |-> "TypeError", self |-> self]

NoFinal == [ran |-> FALSE]

\* one iteration of the loop of lines 456-464 on the split (val, target) of
\* line 457. Line 458 raises; had it passed, score would return a tuple
\* (line 403) and line 461 compare it to the number best["score"], which
\* raises TypeError as well.
SearchIteration(linkProp, Mmod, val, target) ==
    LET set == set_params_kwargs(linkProp, SearchKwargs(FirstGridPoint))
        stop(err, line) == [err |-> err, line |-> line, val |-> val,
                            target |-> target, final |-> NoFinal]
    IN  IF set.err # "none" THEN {stop(set.err, 458)}
        ELSE {IF sc.err # "none" THEN stop(sc.err, 460) ELSE stop("TypeError", 461) :
                sc \in score(fit(set.self, val), Mmod, val, target,
                             DefaultBatchSize, DefaultTotal)}

\* param_search(M) with the split sp drawn at line 457 of its first
\* iteration: every path of that iteration raises, so no path reaches a
\* second iteration or the final run of lines 467-473.
param_search(Mmod, sp) ==
    SearchIteration(NewLinkProp(0, 0, 0, 0, 1, DefaultT, SearchK), Mmod,
                    sp.data, sp.target)

\* the loaded matrices of one more row than Shape
SearchMatrices ==
    {Ones(<<NumRows + 1, NumCols>>, E) : E \in EdgeSets(NumRows + 1, NumCols)}

InitSearch ==
    /\ M \in SearchMatrices
    /\ split = NoSplit
    /\ lp = NoLp
    /\ call = NoCall
    /\ inp = NoMatrix

\* param_search(M) (line 488)
ParamSearch ==
    /\ call.op = "none"
    /\ \E rnd \in RandDraws(NumDraws(M)) :
         \E res \in param_search(M, sample_user_items(M, <<2, 5>>, rnd)) :
            call' = [op |-> "param_search", err |-> res.err, line |-> res.line,
                     val |-> res.val, target |-> res.target, final |-> res.final]
    /\ UNCHANGED <<M, lp, split, inp>>

NextSearch == ParamSearch

SpecSearch == InitSearch /\ [][NextSearch]_vars

\* ============================================================ claims

\* C3: in every row of degree > 1, the positive entries of observed and of
\* heldOutTarget are disjoint and their union is the row's positive entries in
\* the input; both results have the input's shape.
C3_SplitPartitionsRow ==
    split # NoSplit =>
        /\ split.data.size = M.size
        /\ split.target.size = M.size
        /\ \A r \in Rows(M) :
             RowSum(M)[r] > 1 =>
                /\ Positives(split.data, r) \cap Positives(split.target, r) = {}
                /\ Positives(split.data, r) \cup Positives(split.target, r)
                      = Positives(M, r)

C3_Witness ==
    /\ call.op = "sample_user_items"
    /\ \E r \in Rows(M) :
         /\ RowSum(M)[r] > 1
         /\ Positives(split.data, r) # {}
         /\ Positives(split.target, r) # {}

\* C4: every row of degree <= 1 is unchanged in observed and has no positive
\* entry in heldOutTarget.
C4_LowDegreeRowsUntouched ==
    split # NoSplit =>
        \A r \in Rows(M) :
            RowSum(M)[r] <= 1 =>
               /\ \A c \in Cols(M) :
                    /\ Cell(split.data, r, c) = Cell(M, r, c)
                    /\ (<<r, c>> \in Stored(split.data)) = (<<r, c>> \in Stored(M))
               /\ Positives(split.target, r) = {}

C4_Witness ==
    /\ call.op = "sample_user_items"
    /\ \E r, q \in Rows(M) :
         /\ RowSum(M)[r] = 1
         /\ Positives(split.target, q) # {}

\* C6: reading cell (i,j) of sparse_assign(m,i,j,v) yields v, and assigning
\* the same (i,j,v) again leaves every cell and the stored coordinates as
\* they are.
C6_AssignReadBackIdempotent ==
    (call.op = "sparse_assign" /\ InBounds(call.m, call.i, call.j)) =>
        /\ call.err = "none"
        /\ Cell(call.ret, call.i, call.j) = call.val
        /\ LET again == sparse_assign(call.ret, call.i, call.j, call.val)
           IN  /\ again.err = "none"
               /\ Dense(again.ret) = Dense(call.ret)
               /\ Stored(again.ret) = Stored(call.ret)

C6_Witness ==
    /\ call.op = "sparse_assign"
    /\ InBounds(call.m, call.i, call.j)
    /\ Cell(call.m, call.i, call.j) > 0
    /\ call.val > 0
    /\ Cell(call.m, call.i, call.j) # call.val

\* C7: sparse_assign fails, returning no matrix, exactly when i or j is
\* outside the declared shape, negative indices included.
C7_AssignFailsExactlyOutOfBounds ==
    call.op = "sparse_assign" =>
        ((call.err # "none") <=> ~InBounds(call.m, call.i, call.j))

\* C1: predict_topk never returns, for a row of the batch, a
\* column that is an observed (value 1) entry of that row.
C1_NeverReturnsObserved ==
    call.op = "predict_topk" =>
        \A r \in DOMAIN call.ret :
            \A c \in Range(call.ret[r]) : Cell(call.X, call.start + r - 1, c) # 1

\* C2: after fit(X) the scores of every row range are
\* X_alpha_beta[start:end] @ transpose(X) @ X_gamma_delta for the matrix X that
\* was fitted.
C2_MiddleFactorIsWorkingMatrix ==
    call.op = "fit" =>
        \A se \in RowRanges(call.X) :
            get_preds_for_users(lp, M, call.X, se[1], se[2])
               = TwoHop(lp.M_alpha_beta, call.X, lp.M_gamma_delta, se[1], se[2])

\* C8: both shape mismatches fail before any result is produced: sparse_cat
\* of operands with different column counts, and score against a target
\* whose shape is not that of X.
C8_ShapeMismatchFails ==
    /\ \A n \in CatOperands :
         (split # NoSplit /\ n.size[2] # split.data.size[2])
             => sparse_cat(split.data, n).err # "none"
    /\ (call.op = "score" /\ call.y.size # call.X.size) => call.err # "none"

\* C9: mean_average_precision is 1.0 whenever every predicted list equals the
\* row's true list, for every true-list length from 1 to k.
C9_PerfectPredictionScoresOne ==
    (/\ call.op = "mean_average_precision"
     /\ \A i \in DOMAIN call.y_true :
          /\ call.y_pred[i] = call.y_true[i]
          /\ Len(call.y_true[i]) \in 1 .. call.k)
        => RatEq(call.ret, <<1, 1>>)

\* C10: the value score returns is the MAP@k over the rows [0, total): the
\* mean over those rows of the per-row average precision of the predictions
\* against the target lists, whatever the batch size.
C10_ScoreIsRowMeanMAP ==
    (call.op = "score" /\ call.err = "none" /\ call.y.size = call.X.size)
        => RatEq(call.ret,
                 mean_average_precision(call.target_topk, call.user_topk, lp.k))

\* C5: fit_multi on a predictor with rounds = 1 performs zero augmentation
\* rounds and leaves the predictor in exactly the state a single fit of the
\* same matrix from the same starting state produces.
C5_OneRoundIsFit ==
    (call.op = "fit_multi" /\ call.pre.rounds = 1)
        => /\ call.err = "none"
           /\ call.rounds_done = 0
           /\ lp = fit(call.pre, call.X)

\* fit_multi with rounds = 1 has run on a predictor that had cached the
\* degrees of another matrix, and on one that had none
C5_Witness ==
    /\ call.op = "fit_multi"
    /\ call.pre.rounds = 1
    /\ call.pre.user_degrees # None
    /\ lp.user_degrees # RowSum(call.X)

\* C11: merging one edge (r, c, 1) under max-coalesce into a matrix with no
\* entry at (r, c) and recomputing the degrees raises degree[r] and degree[c]
\* by exactly 1 and changes no other degree; merging where (r, c) already is
\* 1 changes no degree.
C11_MergedEdgeDegrees ==
    call.op = "merge" =>
        LET grow == IF <<call.r, call.c>> \notin Stored(call.m) THEN 1 ELSE 0
        IN  (<<call.r, call.c>> \notin Stored(call.m)
                \/ Cell(call.m, call.r, call.c) = 1)
            => /\ \A u \in Rows(call.m) :
                    call.user_degrees[u]
                      = RowSum(call.m)[u] + (IF u = call.r THEN grow ELSE 0)
               /\ \A i \in Cols(call.m) :
                    call.item_degrees[i]
                      = ColSum(call.m)[i] + (IF i = call.c THEN grow ELSE 0)

\* an edge was merged where a 1 was stored, in a matrix with other edges
C11_Witness ==
    /\ call.op = "merge"
    /\ Cell(call.m, call.r, call.c) = 1
    /\ <<call.r, call.c>> \in Stored(call.m)
    /\ Cardinality(Stored(call.m)) > 1
    /\ call.user_degrees = RowSum(call.m)

\* C12: for the 4 x 3 example with all exponents 0 and k = 2, the scores after
\* fit are the two-hop counts M @ transpose(M) @ M of the example, and
\* predict_topk for row 0 returns no column of {0, 1}: exactly <<2>> if the
\* score of (0, 2) is positive, the empty list otherwise.
C12_ExampleScoresAndTopk ==
    (/\ call.op = "predict_topk"
     /\ Dense(call.X) = Dense(Example)
     /\ call.start = 0 /\ call.end = 1 /\ call.k = 2)
        => /\ get_preds_for_users(lp, M, call.X, 0, 1)
                = TwoHop(Example, Example, Example, 0, 1)
           /\ Range(call.ret[1]) \cap {0, 1} = {}
           /\ call.ret[1] = IF TwoHop(Example, Example, Example, 0, 1)[1][2] > 0
                            THEN <<2>> ELSE <<>>

\* C13: for every row of the batch predict_topk returns distinct column ids,
\* as many as min(k, number of columns with a positive masked score), in
\* non-increasing order of masked score, each with a masked score at least
\* that of every column not returned, and none with a non-positive one.
C13_TopkShape ==
    call.op = "predict_topk" =>
        LET ms == MaskedScores(lp, M, call.X, call.start, call.end)
        IN  \A r \in DOMAIN call.ret :
               LET out == call.ret[r]
                   positive == {c \in Cols(call.X) : ms[r][c] > 0}
               IN  /\ \A p, q \in DOMAIN out : p # q => out[p] # out[q]
                   /\ Len(out) = Min2(call.k, Cardinality(positive))
                   /\ \A p, q \in DOMAIN out : p < q => ms[r][out[p]] >= ms[r][out[q]]
                   /\ \A c \in Range(out), d \in Cols(call.X) \ Range(out) :
                        ms[r][c] >= ms[r][d]
                   /\ Range(out) \subseteq positive

\* a row returned fewer than k columns because the others were not positive,
\* and a row left out a positive column because k was reached
C13_Witness ==
    /\ call.op = "predict_topk"
    /\ LET ms == MaskedScores(lp, M, call.X, call.start, call.end)
       IN  \E r \in DOMAIN call.ret :
              \/ (call.ret[r] # <<>> /\ Len(call.ret[r]) < call.k)
              \/ \E c \in Cols(call.X) :
                    ms[r][c] > 0 /\ c \notin Range(call.ret[r])

\* C14: the matrix passed to fit_multi holds exactly the same (row, col,
\* value) triplets after the call as before it, for every rounds, batch_size
\* and total.
C14_FitMultiLeavesMatrix ==
    call.op = "fit_multi" => Coo(split.data) = Coo(call.X)

\* an augmentation round has merged a new link into its working copy
C14_Witness ==
    /\ call.op = "fit_multi"
    /\ call.rounds_done > 0
    /\ \E n \in DOMAIN call.rounds :
         Stored(call.rounds[n].M_new) # Stored(call.X)

\* C15: sparse_re_assign_on_mask sets to val every stored entry whose row
\* (dim = 0) or column (dim = 1) the mask selects, leaves every other entry
\* with its previous value, and keeps the stored coordinates and the shape.
C15_ReAssignOnMaskFrame ==
    call.op = "sparse_re_assign_on_mask" =>
        /\ call.ret.size = call.m.size
        /\ Stored(call.ret) = Stored(call.m)
        /\ \A p \in Stored(call.m) :
             call.ret.ent[p] = IF call.mask[p[call.dim + 1]] THEN call.val
                               ELSE call.m.ent[p]

\* the mask selected a stored entry whose value differs from the one
\* assigned, and either left out another stored entry or selected a row or
\* column that stores nothing
C15_Witness ==
    /\ call.op = "sparse_re_assign_on_mask"
    /\ \E p \in Stored(call.m) :
         /\ call.mask[p[call.dim + 1]]
         /\ call.m.ent[p] # call.val
         /\ call.m.ent[p] # 0
    /\ \/ \E q \in Stored(call.m) : ~call.mask[q[call.dim + 1]]
       \/ \E i \in DOMAIN call.mask :
             call.mask[i] /\ \A p \in Stored(call.m) : p[call.dim + 1] # i

\* C16: the final test run of param_search draws its own holdout split, fits
\* the predictor on that split's observed matrix and scores that same
\* observed matrix against that split's held-out target.
C16_FinalRunUsesItsOwnSplit ==
    call.op = "param_search" =>
        /\ call.final.ran
        /\ call.final.fitted = call.final.test
        /\ call.final.scored = call.final.test
        /\ call.final.against = call.final.target

\* C17: after every augmentation round of fit_multi, M_alpha_beta and
\* M_gamma_delta are rebuilt from the matrix M passed to fit_multi: their
\* stored coordinates are the nonzero coordinates of M, and each weight is
\* taken from the row and column sums of that round's merged matrix M_new,
\* which are the predictor's degree vectors.
C17_RoundRefitsOriginalWithMergedDegrees ==
    call.op = "fit_multi" =>
        \A n \in DOMAIN call.rounds :
           LET after == call.rounds[n].self
               udeg == RowSum(call.rounds[n].M_new)
               ideg == ColSum(call.rounds[n].M_new)
               nz == {rc \in Stored(call.X) : call.X.ent[rc] # 0}
           IN  /\ after.user_degrees = udeg
               /\ after.item_degrees = ideg
               /\ Stored(after.M_alpha_beta) = nz
               /\ Stored(after.M_gamma_delta) = nz
               /\ \A rc \in nz :
                    /\ after.M_alpha_beta.ent[rc]
                         = ExpWeight(udeg[rc[1]], after.alpha, call.X.size)
                             * ExpWeight(ideg[rc[2]], after.beta, call.X.size)
                             * call.X.ent[rc]
                    /\ after.M_gamma_delta.ent[rc]
                         = ExpWeight(udeg[rc[1]], after.gamma, call.X.size)
                             * ExpWeight(ideg[rc[2]], after.delta, call.X.size)
                             * call.X.ent[rc]

\* a round has injected an edge, so that the degrees of its merged matrix
\* differ from those of the matrix passed to fit_multi
C17_Witness ==
    /\ call.op = "fit_multi"
    /\ call.err = "none"
    /\ \E n \in DOMAIN call.rounds :
         /\ RowSum(call.rounds[n].M_new) # RowSum(call.X)
         /\ \E rc \in Stored(call.rounds[n].M_new) :
              /\ call.rounds[n].M_new.ent[rc] # 0
              /\ rc \notin Stored(call.rounds[n].self.M_alpha_beta)

\* C18: augmentation accumulates across rounds: the merged matrix from which
\* the degrees are recomputed at the end of a round contains the edges of M
\* and every edge of the merged matrix of the round before, and no degree
\* decreases from one round to the next.
C18_AugmentationAccumulates ==
    call.op = "fit_multi" =>
        \A n \in DOMAIN call.rounds :
           /\ Edges(call.X) \subseteq Edges(call.rounds[n].M_new)
           /\ n > 1 =>
                /\ Edges(call.rounds[n - 1].M_new) \subseteq Edges(call.rounds[n].M_new)
                /\ \A r \in Rows(call.X) :
                     call.rounds[n - 1].self.user_degrees[r]
                        <= call.rounds[n].self.user_degrees[r]
                /\ \A c \in Cols(call.X) :
                     call.rounds[n - 1].self.item_degrees[c]
                        <= call.rounds[n].self.item_degrees[c]

\* C19 as stated: after any fit(M), M_alpha_beta and M_gamma_delta store
\* exactly the nonzero coordinates of M, each stored value is the product of
\* the row factor, the column factor and the value in M, and the factor of a
\* zero degree is 0, so that a node with zero degree contributes 0.
C19_ZeroDegreeContributesZero ==
    call.op = "fit" =>
        LET factor(deg, e) ==
                IF deg = 0 THEN 0
                ELSE IF e >= 0 THEN Pow(DegScale(call.X.size) \div deg, e)
                     ELSE Pow(deg, 0 - e)
        IN  /\ Stored(lp.M_alpha_beta) = Edges(call.X)
            /\ Stored(lp.M_gamma_delta) = Edges(call.X)
            /\ \A rc \in Edges(call.X) :
                 /\ lp.M_alpha_beta.ent[rc]
                      = factor(lp.user_degrees[rc[1]], lp.alpha)
                          * factor(lp.item_degrees[rc[2]], lp.beta) * call.X.ent[rc]
                 /\ lp.M_gamma_delta.ent[rc]
                      = factor(lp.user_degrees[rc[1]], lp.gamma)
                          * factor(lp.item_degrees[rc[2]], lp.delta) * call.X.ent[rc]

\* C19, amended: after any fit(M), M_alpha_beta and M_gamma_delta store
\* exactly the nonzero coordinates of M, and each stored value is the product
\* of the row factor, the column factor and the value in M, where a factor is
\* degree ** (-exponent) and 0 where that is inf (a zero degree under a
\* positive exponent); a zero degree under the exponent 0 has the factor 1.
C19_FitStoresClampedWeights ==
    call.op = "fit" =>
        LET factor(deg, e) ==
                IF e = 0 THEN 1
                ELSE IF e < 0 THEN Pow(deg, 0 - e)
                     ELSE IF deg = 0 THEN 0
                          ELSE Pow(DegScale(call.X.size) \div deg, e)
        IN  /\ Stored(lp.M_alpha_beta) = Edges(call.X)
            /\ Stored(lp.M_gamma_delta) = Edges(call.X)
            /\ \A rc \in Edges(call.X) :
                 /\ lp.M_alpha_beta.ent[rc]
                      = factor(lp.user_degrees[rc[1]], lp.alpha)
                          * factor(lp.item_degrees[rc[2]], lp.beta) * call.X.ent[rc]
                 /\ lp.M_gamma_delta.ent[rc]
                      = factor(lp.user_degrees[rc[1]], lp.gamma)
                          * factor(lp.item_degrees[rc[2]], lp.delta) * call.X.ent[rc]

\* a fit with a positive exponent has met a zero degree at a row that holds
\* an edge, and stored the weight 0 there
C19_Witness ==
    /\ call.op = "fit"
    /\ lp.alpha > 0
    /\ \E rc \in Edges(call.X) :
         /\ lp.user_degrees[rc[1]] = 0
         /\ lp.M_alpha_beta.ent[rc] = 0

\* C20: once user_degrees and item_degrees are populated, a later set_params
\* and a later fit(M2), for any matrix M2, leave both degree vectors
\* unchanged, and that fit builds the propagation matrices from the cached
\* degrees rather than from the degrees of M2.
C20_DegreesCachedAcrossFits ==
    (call.op \in {"fit", "set_params"} /\ "pre" \in DOMAIN call)
        => /\ lp.user_degrees = call.pre.user_degrees
           /\ lp.item_degrees = call.pre.item_degrees
           /\ call.op = "fit" =>
                /\ lp.M_alpha_beta
                     = Reweighted(call.X, call.pre.user_degrees,
                                  call.pre.item_degrees, lp.alpha, lp.beta)
                /\ lp.M_gamma_delta
                     = Reweighted(call.X, call.pre.user_degrees,
                                  call.pre.item_degrees, lp.gamma, lp.delta)

\* a fitted predictor was given other parameters and fitted again on a
\* matrix of other degrees, which would have given other weights
C20_Witness ==
    /\ call.op = "fit"
    /\ "pre" \in DOMAIN call
    /\ call.pre.scale_ab # lp.scale_ab
    /\ RowSum(call.X) # lp.user_degrees
    /\ lp.M_alpha_beta
         # Reweighted(call.X, RowSum(call.X), ColSum(call.X), lp.alpha, lp.beta)

\* C21: after every batch merge inside an augmentation round, the working
\* copy M_new has one entry per coordinate, contains every entry of M with a
\* value not smaller than its value in M, and every coordinate of M_new that
\* is not in M has the value 1 and lies in a row below total.
C21_MergeKeepsMatrixAddsOnes ==
    call.op = "fit_multi" =>
        \A ms \in {call.rounds[n].merges : n \in DOMAIN call.rounds} \cup {call.open} :
           \A j \in DOMAIN ms :
              LET coo == Coo(ms[j].M_new)
              IN  /\ \A p, q \in DOMAIN coo :
                       (coo[p][1] = coo[q][1] /\ coo[p][2] = coo[q][2]) => p = q
                  /\ \A rc \in Stored(call.X) :
                       /\ rc \in Stored(ms[j].M_new)
                       /\ ms[j].M_new.ent[rc] >= call.X.ent[rc]
                  /\ \A rc \in Stored(ms[j].M_new) \ Stored(call.X) :
                       /\ ms[j].M_new.ent[rc] = 1
                       /\ rc[1] < call.total

\* a sweep that stops above the last row has merged a new coordinate into
\* a matrix with entries in the rows it left out
C21_Witness ==
    /\ call.op = "fit_multi"
    /\ call.total < call.X.size[1]
    /\ \E rc \in Stored(call.X) : rc[1] >= call.total
    /\ \E n \in DOMAIN call.rounds :
         \E j \in DOMAIN call.rounds[n].merges :
            Stored(call.rounds[n].merges[j].M_new) # Stored(call.X)

C23_BatchOrderIrrelevant ==
    call.op = "sweep" =>
        /\ call.other = call.straight
        /\ call.other_degrees = call.straight_degrees

\* two batches were swept in the reverse order and a link was merged
C23_Witness ==
    /\ call.op = "sweep"
    /\ Len(call.order) > 1
    /\ call.order[1] # 1
    /\ \E m \in call.other : Stored(m) # Stored(call.X)

\* C24: predictions do not depend on held-out edges: two runs that fit the
\* predictor on the same observed matrix X with the same hyperparameters, and
\* whose held-out edges differ, get the same results from
\* predict_topk(X, start, end, k) for every row range.
C24_HeldOutEdgesDoNotLeak ==
    call.op = "predict_topk_twice" => call.other_ret = call.ret

\* C25: for every outcome of the random mask and every ratio in [0, 1], every
\* row with a positive entry in the input of sample_user_items keeps a
\* positive entry in the returned observed matrix.
C25_NoRowStripped ==
    split # NoSplit =>
        \A r \in Rows(M) : Positives(M, r) # {} => Positives(split.data, r) # {}

\* C26: for same-shape matrices m and n and every batch_size >= 1, sizes that
\* do not divide the row count or exceed it included,
\* sparse_batch_op(batch_size, op, m, n) has the shape of m and its cell (r, c)
\* is op(m[r, c], n[r, c]) for every cell.
C26_BatchOpIsWholeOp ==
    call.op = "sparse_batch_op" =>
        /\ call.err = "none"
        /\ call.ret.size = call.m.size
        /\ \A r \in Rows(call.m), c \in Cols(call.m) :
             Cell(call.ret, r, c)
               = ApplyOp(call.fn, Cell(call.m, r, c), Cell(call.n, r, c))

\* a batch size that does not divide the row count, with a last block whose
\* result is 1 where both operands are 0, and a result of 0 where both
\* operands are stored
C26_Witness ==
    /\ call.op = "sparse_batch_op"
    /\ call.m.size[1] % call.batch_size # 0
    /\ call.batch_size < call.m.size[1]
    /\ \E c \in Cols(call.m) :
         /\ <<call.m.size[1] - 1, c>> \notin Stored(call.m) \cup Stored(call.n)
         /\ Cell(call.ret, call.m.size[1] - 1, c) = 1
    /\ \E rc \in Stored(call.m) \cap Stored(call.n) : Cell(call.ret, rc[1], rc[2]) = 0

====
